---- MODULE Spec2Model ----
(***************************************************************************)
(* Model of bo-cc: the cc-get snapshot driver (src/bin/cc-get.rs), the     *)
(* summary writer thread AnalysisWriter and the polite fetcher Client      *)
(* (src/lib.rs).                                                           *)
(*                                                                         *)
(* A WARC URL is a sequence of one-character strings, so that              *)
(* to_storage_fn can be computed character by character.  The contents of  *)
(* a summary are abstracted to whether it was folded from the whole record *)
(* stream ("full") or from a stream that broke off early ("truncated").    *)
(***************************************************************************)
EXTENDS Integers, Sequences, FiniteSets, Bags, TLC

\* ------------------------------------------------------------------ bounds
MaxManifest == 2      \* longest manifest of the session specification
MaxRuns == 2          \* cc-get runs over the same manifest
QueueManifestLen == 34 \* manifest length of the backlog specification

\* --------------------------------------------------------------- constants
WRITE_BACKLOG == 32
INITIAL_WAIT == 0
MAX_WAIT == 30

\* ---------------------------------------------------------------- WARC URLs
Urls == { <<"a">>, <<"b", "/", "c">>, <<"b", "!", "c">> }

Digits == <<"0", "1", "2", "3", "4", "5", "6", "7", "8", "9">>

\* the i-th path of the long manifest: "w" followed by two decimal digits
LongUrl(i) == <<"w", Digits[((i \div 10) % 10) + 1], Digits[(i % 10) + 1]>>

LongManifest == [i \in 1..QueueManifestLen |-> LongUrl(i)]

RECURSIVE SeqsUpTo(_, _)
SeqsUpTo(S, n) ==
    IF n = 0 THEN { <<>> }
    ELSE LET shorter == SeqsUpTo(S, n - 1)
         IN  shorter \cup { Append(s, x) : s \in shorter, x \in S }

Manifests == SeqsUpTo(Urls, MaxManifest)

Range(s) == { s[i] : i \in DOMAIN s }

IsPrefix(p, s) ==
    /\ Len(p) <= Len(s)
    /\ \A i \in 1..Len(p) : p[i] = s[i]

\* warc_url.replace('/', "!")
Replace(warc_url) ==
    [i \in DOMAIN warc_url |-> IF warc_url[i] = "/" THEN "!" ELSE warc_url[i]]

\* format!("forms.d/{}.json.xz", warc_url.replace('/', "!"))
to_storage_fn(warc_url) == <<"forms.d/">> \o Replace(warc_url) \o <<".json.xz">>

VARIABLES
    \* ---- environment and disk
    manifest,       \* lines of warc.paths.gz served by the origin
    disk_index,     \* lines of forms.d/index on disk
    files,          \* storage filename -> "partial" | "complete"
    \* ---- cc-get main (driver thread)
    dpc,            \* position of main
    seen,           \* HashSet built from processed_warcs()
    warc_urls,      \* what is left of the filtered manifest iterator
    cur,            \* (warc_url, summary) of the loop body
    main_result,    \* "none" | "ok" | "err": what main returns
    exit_code,      \* -1 while running; 0, 1 (Err) or 101 (panic)
    \* ---- AnalysisWriter
    inbox,          \* messages in the sync_channel
    sender_alive,   \* self.inbox is Some
    wpc,            \* position of process_inbox
    w_seen,         \* seen of process_inbox
    index_bw,       \* lines buffered in index_bw, not yet on disk
    w_msg,          \* message received by the writer
    \* ---- history
    run,            \* number of the current cc-get run
    index_at_start, \* forms.d/index when the run started
    handed,         \* paths handed to process_warc in this run
    accepted,       \* paths for which write returned Ok in this run
    appended,       \* paths whose line reached the index in this run
    rewritten,      \* the initial rewrite of the index has completed
    fully,          \* paths for which process_warc read the whole stream
    partial,        \* paths taken by process_warc and never read to the end
    prev_partial,   \* partial as it was when the previous run ended
    storage_error,  \* some storage operation failed in this run
    fetch_err,      \* how process_warc failed in this run: "transport",
                    \* "status", or "none"
    \* ---- Client (shared by its clones) and the origin
    wait_time,      \* Client.wait_time, seconds
    last_req_age,   \* seconds from the instant stored in Client.last_req to now
    cpc,            \* thread -> position in Client::get
    seen_last_req_age, \* thread -> age of the value loaded into seen_last_req
    s_passed,       \* thread -> s_passed of wait_for_our_turn
    seen_wait_time, \* thread -> seen_wait_time of Client::get
    resp,           \* thread -> status of the response r, -1 without one
    ret,            \* thread -> what get returned: a status, 0 for Err, -1
    calls,          \* thread -> calls of get begun
    budget,         \* 5xx responses the origin gives to one call at most
    consec,         \* thread -> 5xx responses received in the current call
    streak,         \* 5xx handled since wait_time was INITIAL_WAIT, -1 unknown
    since_req,      \* seconds since the last send() of any thread, NoRequest
                    \* before one, NotFollowed where spacing is not looked at
    \* ---- process_warc: the records of one WARC and their reduction
    input,          \* the records the WARC reader yields, in order
    pos,            \* records of input taken by the workers so far
    trace_on,       \* the log level lets trace! evaluate its arguments
    partials,       \* bag of partial summaries held by the workers
    zeros,          \* calls of the identity ArchiveSummary::default by reduce
    summary,        \* what process_warc returns: <<A>>, <<>> before it returns
    last_inc,       \* what from_record returned for the record taken last
    lhs,            \* self of the last call of merge
    rhs,            \* other of the last call of merge
    merged          \* what the last call of merge returned, <<>> before one

pvars == <<manifest, disk_index, files, dpc, seen, warc_urls, cur, main_result,
           exit_code, inbox, sender_alive, wpc, w_seen, index_bw, w_msg, run,
           index_at_start, handed, accepted, appended, rewritten, fully,
           partial, prev_partial, storage_error, fetch_err>>

cvars == <<wait_time, last_req_age, cpc, seen_last_req_age, s_passed,
           seen_wait_time, resp, ret, calls, budget, consec, streak,
           since_req>>

avars == <<input, pos, trace_on, partials, zeros, summary, last_inc, lhs, rhs,
           merged>>

\* what the steps of the driver and the writer leave alone
ovars == <<cvars, avars>>

vars == <<pvars, cvars, avars>>

Threads == {"t1", "t2"}

NoRequest == -1
NotFollowed == -2

\* no WARC is being read: process_warc has not been called
AnalysisStart ==
    /\ input = <<>>
    /\ pos = 0
    /\ trace_on = FALSE
    /\ partials = EmptyBag
    /\ zeros = 0
    /\ summary = <<>>
    /\ last_inc = <<>>
    /\ lhs = <<>>
    /\ rhs = <<>>
    /\ merged = <<>>

\* Client::new, before any call of get; no thread is inside get
ClientStart ==
    /\ wait_time = INITIAL_WAIT
    /\ last_req_age = 0
    /\ cpc = [t \in Threads |-> "idle"]
    /\ seen_last_req_age = [t \in Threads |-> 0]
    /\ s_passed = [t \in Threads |-> 0]
    /\ seen_wait_time = [t \in Threads |-> 0]
    /\ resp = [t \in Threads |-> -1]
    /\ ret = [t \in Threads |-> -1]
    /\ calls = [t \in Threads |-> 0]
    /\ consec = [t \in Threads |-> 0]
    /\ streak = 0

NoMsg == [url |-> <<>>, summary |-> "none"]

FileState(fn) == IF fn \in DOMAIN files THEN files[fn] ELSE "absent"

SetFile(fn, st) ==
    [f \in (DOMAIN files) \cup {fn} |-> IF f = fn THEN st ELSE files[f]]

\* processed_warcs(): the lines of forms.d/index
processed_warcs == disk_index

ProcessStart ==
    /\ dpc = "start"
    /\ seen = {}
    /\ warc_urls = <<>>
    /\ cur = NoMsg
    /\ main_result = "none"
    /\ exit_code = -1
    /\ inbox = <<>>
    /\ sender_alive = FALSE
    /\ wpc = "unborn"
    /\ w_seen = <<>>
    /\ index_bw = <<>>
    /\ w_msg = NoMsg
    /\ handed = <<>>
    /\ accepted = {}
    /\ appended = {}
    /\ rewritten = FALSE
    /\ storage_error = FALSE
    /\ fetch_err = "none"

Init ==
    /\ manifest \in Manifests
    /\ disk_index = <<>>
    /\ files = <<>>
    /\ run = 1
    /\ index_at_start = <<>>
    /\ fully = {}
    /\ partial = {}
    /\ prev_partial = {}
    /\ ProcessStart
    /\ ClientStart
    /\ budget = 0
    /\ since_req = NotFollowed
    /\ AnalysisStart

\* ======================================================== cc-get: the driver
\* the variables of the writer thread and of the disk
wvars == <<wpc, w_seen, index_bw, w_msg, disk_index, files, appended, rewritten,
           storage_error>>
\* the history that only a restart changes
rvars == <<manifest, run, index_at_start, prev_partial>>
\* the history of process_warc
hvars == <<fully, partial, fetch_err>>

\* a main that creates the AnalysisWriter first and reads the index for its
\* 'already done' set afterwards
D_LoadSeen_after_writer ==
    /\ dpc = "start"
    /\ \/ /\ wpc = "unborn"
          /\ wpc' = "start"
          /\ sender_alive' = TRUE
          /\ UNCHANGED <<seen, dpc>>
       \/ /\ wpc # "unborn"
          /\ seen' = Range(processed_warcs)
          /\ dpc' = "get_warcs"
          /\ UNCHANGED <<wpc, sender_alive>>
    /\ UNCHANGED <<warc_urls, cur, main_result, exit_code, inbox, handed,
                   accepted>>
    /\ UNCHANGED hvars
    /\ UNCHANGED <<w_seen, index_bw, w_msg, disk_index, files, appended,
                   rewritten, storage_error>>
    /\ UNCHANGED rvars
    /\ UNCHANGED ovars

\* main: let seen: HashSet<String> = processed_warcs().into_iter().collect()
D_LoadSeen ==
    /\ dpc = "start"
    /\ seen' = Range(processed_warcs)
    /\ dpc' = "get_warcs"
    /\ UNCHANGED <<warc_urls, cur, main_result, exit_code, inbox, sender_alive,
                   handed, accepted>>
    /\ UNCHANGED hvars
    /\ UNCHANGED wvars
    /\ UNCHANGED rvars
    /\ UNCHANGED ovars

\* get_warcs without the filter on warcs_present
get_warcs_unfiltered(warcs_present) == manifest

\* get_warcs: the manifest lines, in order, without those in warcs_present
get_warcs(warcs_present) ==
    SelectSeq(manifest, LAMBDA u : ~(u \in warcs_present))

D_GetWarcs ==
    /\ dpc = "get_warcs"
    /\ warc_urls' = get_warcs(seen)
    /\ dpc' = "new_writer"
    /\ UNCHANGED <<seen, cur, main_result, exit_code, inbox, sender_alive,
                   handed, accepted>>
    /\ UNCHANGED hvars
    /\ UNCHANGED wvars
    /\ UNCHANGED rvars
    /\ UNCHANGED ovars

\* get_warcs(...)? when the manifest fetch fails: main returns Err before a
\* writer exists
D_GetWarcsErr ==
    /\ dpc = "get_warcs"
    /\ dpc' = "exited"
    /\ main_result' = "err"
    /\ exit_code' = 1
    /\ UNCHANGED <<seen, warc_urls, cur, inbox, sender_alive, handed, accepted>>
    /\ UNCHANGED hvars
    /\ UNCHANGED wvars
    /\ UNCHANGED rvars
    /\ UNCHANGED ovars

\* AnalysisWriter::new: sync_channel(WRITE_BACKLOG) and thread::spawn
D_NewWriter ==
    /\ dpc = "new_writer"
    /\ inbox' = <<>>
    /\ sender_alive' = TRUE
    /\ wpc' = "start"
    /\ dpc' = "loop"
    /\ UNCHANGED <<seen, warc_urls, cur, main_result, exit_code, handed,
                   accepted>>
    /\ UNCHANGED hvars
    /\ UNCHANGED <<w_seen, index_bw, w_msg, disk_index, files, appended,
                   rewritten, storage_error>>
    /\ UNCHANGED rvars
    /\ UNCHANGED ovars

\* for warc_url in warc_urls: the next path enters process_warc
D_TakeNext ==
    /\ dpc = "loop"
    /\ warc_urls # <<>>
    /\ cur' = [url |-> Head(warc_urls), summary |-> "none"]
    /\ warc_urls' = Tail(warc_urls)
    /\ handed' = Append(handed, Head(warc_urls))
    /\ partial' = partial \cup ({Head(warc_urls)} \ fully)
    /\ fully' = fully
    /\ UNCHANGED fetch_err
    /\ dpc' = "process"
    /\ UNCHANGED <<seen, main_result, exit_code, inbox, sender_alive, accepted>>
    /\ UNCHANGED wvars
    /\ UNCHANGED rvars
    /\ UNCHANGED ovars

\* the iterator is exhausted: main falls out of the loop and returns Ok(())
D_LoopEnd ==
    /\ dpc = "loop"
    /\ warc_urls = <<>>
    /\ main_result' = "ok"
    /\ dpc' = "drop"
    /\ UNCHANGED <<seen, warc_urls, cur, exit_code, inbox, sender_alive, handed,
                   accepted>>
    /\ UNCHANGED hvars
    /\ UNCHANGED wvars
    /\ UNCHANGED rvars
    /\ UNCHANGED ovars

\* process_warc returns Ok(summary) after the record stream was read to its end
D_ProcessOk ==
    /\ dpc = "process"
    /\ cur' = [cur EXCEPT !.summary = "full"]
    /\ partial' = partial \ {cur.url}
    /\ fully' = fully \cup {cur.url}
    /\ UNCHANGED fetch_err
    /\ dpc' = "write"
    /\ UNCHANGED <<seen, warc_urls, main_result, exit_code, inbox, sender_alive,
                   handed, accepted>>
    /\ UNCHANGED wvars
    /\ UNCHANGED rvars
    /\ UNCHANGED ovars

\* get_records: warc_reader.filter_map(|r| r.ok()) drops the Err items, so a
\* stream that fails before its end is a shorter stream and process_warc
\* still returns Ok(summary)
D_ProcessTruncated ==
    /\ dpc = "process"
    /\ cur' = [cur EXCEPT !.summary = "truncated"]
    /\ dpc' = "write"
    /\ UNCHANGED <<seen, warc_urls, main_result, exit_code, inbox, sender_alive,
                   handed, accepted>>
    /\ UNCHANGED hvars
    /\ UNCHANGED wvars
    /\ UNCHANGED rvars
    /\ UNCHANGED ovars

\* how get_records fails: client.get(warc_url)? on a transport error,
\* .error_for_status()? on a 4xx status (get hands back no 5xx)
FetchErrors == {"transport", "status"}

\* Err(e) => a skipped WARC: the loop goes on with the next path
D_ProcessErr_continues ==
    /\ dpc = "process"
    /\ \E e \in FetchErrors : fetch_err' = e
    /\ dpc' = "loop"
    /\ UNCHANGED <<seen, warc_urls, cur, main_result, exit_code, inbox,
                   sender_alive, handed, accepted, fully, partial>>
    /\ UNCHANGED wvars
    /\ UNCHANGED rvars
    /\ UNCHANGED ovars

\* client.get(warc_url)?.error_for_status()? fails: Err(e) => break
D_ProcessErr ==
    /\ dpc = "process"
    /\ \E e \in FetchErrors : fetch_err' = e
    /\ main_result' = "ok"
    /\ dpc' = "drop"
    /\ UNCHANGED <<seen, warc_urls, cur, exit_code, inbox, sender_alive, handed,
                   accepted, fully, partial>>
    /\ UNCHANGED wvars
    /\ UNCHANGED rvars
    /\ UNCHANGED ovars

WriterGone == wpc \in {"done", "panicked"}

\* write with a channel that takes one message more than WRITE_BACKLOG
D_Write_one_more ==
    /\ dpc = "write"
    /\ ~WriterGone
    /\ Len(inbox) <= WRITE_BACKLOG
    /\ inbox' = Append(inbox, cur)
    /\ accepted' = accepted \cup {cur.url}
    /\ dpc' = "loop"
    /\ UNCHANGED <<seen, warc_urls, cur, main_result, exit_code, sender_alive,
                   handed>>
    /\ UNCHANGED hvars
    /\ UNCHANGED wvars
    /\ UNCHANGED rvars
    /\ UNCHANGED ovars

\* AnalysisWriter::write: inbox.send blocks while the channel holds
\* WRITE_BACKLOG messages
D_Write ==
    /\ dpc = "write"
    /\ ~WriterGone
    /\ Len(inbox) < WRITE_BACKLOG
    /\ inbox' = Append(inbox, cur)
    /\ accepted' = accepted \cup {cur.url}
    /\ dpc' = "loop"
    /\ UNCHANGED <<seen, warc_urls, cur, main_result, exit_code, sender_alive,
                   handed>>
    /\ UNCHANGED hvars
    /\ UNCHANGED wvars
    /\ UNCHANGED rvars
    /\ UNCHANGED ovars

\* the receiver is gone: send returns Err and writer.write(..)? returns from main
D_WriteErr ==
    /\ dpc = "write"
    /\ WriterGone
    /\ main_result' = "err"
    /\ dpc' = "drop"
    /\ UNCHANGED <<seen, warc_urls, cur, exit_code, inbox, sender_alive, handed,
                   accepted>>
    /\ UNCHANGED hvars
    /\ UNCHANGED wvars
    /\ UNCHANGED rvars
    /\ UNCHANGED ovars

\* drop that joins the thread without dropping the sender first
D_Drop_keeps_sender ==
    /\ dpc = "drop"
    /\ sender_alive' = sender_alive
    /\ dpc' = "join"
    /\ UNCHANGED <<seen, warc_urls, cur, main_result, exit_code, inbox, handed,
                   accepted>>
    /\ UNCHANGED hvars
    /\ UNCHANGED wvars
    /\ UNCHANGED rvars
    /\ UNCHANGED ovars

\* Drop for AnalysisWriter: drop(self.inbox.take())
D_Drop ==
    /\ dpc = "drop"
    /\ sender_alive' = FALSE
    /\ dpc' = "join"
    /\ UNCHANGED <<seen, warc_urls, cur, main_result, exit_code, inbox, handed,
                   accepted>>
    /\ UNCHANGED hvars
    /\ UNCHANGED wvars
    /\ UNCHANGED rvars
    /\ UNCHANGED ovars

\* Drop for AnalysisWriter: thread.join().expect("Worker error!")
D_Join ==
    /\ dpc = "join"
    /\ WriterGone
    /\ exit_code' = IF wpc = "panicked" THEN 101
                    ELSE IF main_result = "ok" THEN 0 ELSE 1
    /\ dpc' = "exited"
    /\ UNCHANGED <<seen, warc_urls, cur, main_result, inbox, sender_alive,
                   handed, accepted>>
    /\ UNCHANGED hvars
    /\ UNCHANGED wvars
    /\ UNCHANGED rvars
    /\ UNCHANGED ovars

Driver ==
    \/ D_LoadSeen \/ D_GetWarcs \/ D_GetWarcsErr \/ D_NewWriter \/ D_TakeNext
    \/ D_LoopEnd \/ D_ProcessOk \/ D_ProcessTruncated \/ D_ProcessErr
    \/ D_Write \/ D_WriteErr \/ D_Drop \/ D_Join

\* ==================================== AnalysisWriter::process_inbox (thread)
\* the variables of the driver thread
dvars == <<dpc, seen, warc_urls, cur, main_result, exit_code, sender_alive,
           handed, accepted, fully, partial, fetch_err>>

\* fs::create_dir_all("forms.d"); let seen = processed_warcs()
W_Start ==
    /\ wpc = "start"
    /\ w_seen' = processed_warcs
    /\ wpc' = "truncate"
    /\ UNCHANGED <<index_bw, w_msg, disk_index, files, appended, rewritten,
                   storage_error, inbox>>
    /\ UNCHANGED dvars
    /\ UNCHANGED rvars
    /\ UNCHANGED ovars

\* BufWriter::new(fs::File::create("forms.d/index")): the index is truncated
W_Truncate ==
    /\ wpc = "truncate"
    /\ disk_index' = <<>>
    /\ index_bw' = <<>>
    /\ wpc' = "rewrite"
    /\ UNCHANGED <<w_seen, w_msg, files, appended, rewritten, storage_error,
                   inbox>>
    /\ UNCHANGED dvars
    /\ UNCHANGED rvars
    /\ UNCHANGED ovars

\* process_inbox that does not write the previous lines back
W_Rewrite_nothing ==
    /\ wpc = "rewrite"
    /\ index_bw' = index_bw
    /\ wpc' = "rewrite_flush"
    /\ UNCHANGED <<w_seen, w_msg, disk_index, files, appended, rewritten,
                   storage_error, inbox>>
    /\ UNCHANGED dvars
    /\ UNCHANGED rvars
    /\ UNCHANGED ovars

\* for s in seen { writeln!(index_bw, "{}", s) }: the lines go to the buffer
W_Rewrite ==
    /\ wpc = "rewrite"
    /\ index_bw' = index_bw \o w_seen
    /\ wpc' = "rewrite_flush"
    /\ UNCHANGED <<w_seen, w_msg, disk_index, files, appended, rewritten,
                   storage_error, inbox>>
    /\ UNCHANGED dvars
    /\ UNCHANGED rvars
    /\ UNCHANGED ovars

\* index_bw.flush() after the rewrite
W_RewriteFlush ==
    /\ wpc = "rewrite_flush"
    /\ disk_index' = disk_index \o index_bw
    /\ index_bw' = <<>>
    /\ rewritten' = TRUE
    /\ wpc' = "recv"
    /\ UNCHANGED <<w_seen, w_msg, files, appended, storage_error, inbox>>
    /\ UNCHANGED dvars
    /\ UNCHANGED rvars
    /\ UNCHANGED ovars

\* while let Ok((warc_url, summary)) = incoming.recv()
W_Recv ==
    /\ wpc = "recv"
    /\ inbox # <<>>
    /\ w_msg' = Head(inbox)
    /\ inbox' = Tail(inbox)
    /\ wpc' = "create"
    /\ UNCHANGED <<w_seen, index_bw, disk_index, files, appended, rewritten,
                   storage_error>>
    /\ UNCHANGED dvars
    /\ UNCHANGED rvars
    /\ UNCHANGED ovars

\* recv() returns Err once the channel is empty and the sender was dropped:
\* the loop ends and the thread returns
W_RecvClosed ==
    /\ wpc = "recv"
    /\ inbox = <<>>
    /\ ~sender_alive
    /\ wpc' = "done"
    /\ UNCHANGED <<w_seen, index_bw, w_msg, disk_index, files, appended,
                   rewritten, storage_error, inbox>>
    /\ UNCHANGED dvars
    /\ UNCHANGED rvars
    /\ UNCHANGED ovars

\* fs::File::create(&archive_fn): the summary file exists and is empty
W_Create ==
    /\ wpc = "create"
    /\ files' = SetFile(to_storage_fn(w_msg.url), "partial")
    /\ wpc' = "serialize"
    /\ UNCHANGED <<w_seen, index_bw, w_msg, disk_index, appended, rewritten,
                   storage_error, inbox>>
    /\ UNCHANGED dvars
    /\ UNCHANGED rvars
    /\ UNCHANGED ovars

\* serde_json::to_writer(archive_writer, &summary): the summary is encoded and
\* the encoder and its BufWriter, moved into the call, are finished and flushed
\* when they are dropped at its end
W_Serialize ==
    /\ wpc = "serialize"
    /\ files' = SetFile(to_storage_fn(w_msg.url), "complete")
    /\ wpc' = "index_writeln"
    /\ UNCHANGED <<w_seen, index_bw, w_msg, disk_index, appended, rewritten,
                   storage_error, inbox>>
    /\ UNCHANGED dvars
    /\ UNCHANGED rvars
    /\ UNCHANGED ovars

\* writeln!(index_bw, "{}", warc_url): the line goes to the buffer
W_IndexWriteln ==
    /\ wpc = "index_writeln"
    /\ index_bw' = Append(index_bw, w_msg.url)
    /\ wpc' = "index_flush"
    /\ UNCHANGED <<w_seen, w_msg, disk_index, files, appended, rewritten,
                   storage_error, inbox>>
    /\ UNCHANGED dvars
    /\ UNCHANGED rvars
    /\ UNCHANGED ovars

\* index_bw.flush()
W_IndexFlush ==
    /\ wpc = "index_flush"
    /\ disk_index' = disk_index \o index_bw
    /\ appended' = appended \cup Range(index_bw)
    /\ index_bw' = <<>>
    /\ w_msg' = NoMsg
    /\ wpc' = "recv"
    /\ UNCHANGED <<w_seen, files, rewritten, storage_error, inbox>>
    /\ UNCHANGED dvars
    /\ UNCHANGED rvars
    /\ UNCHANGED ovars

\* ---- storage failures
\* .expect(..) / panic!(..): the thread unwinds, the receiver is dropped with
\* whatever the channel still holds
Panics ==
    /\ wpc' = "panicked"
    /\ inbox' = <<>>
    /\ storage_error' = TRUE

\* fs::File::create("forms.d/index") fails: expect("Unable to open index file")
W_OpenIndexFail ==
    /\ wpc = "truncate"
    /\ Panics
    /\ UNCHANGED <<w_seen, index_bw, w_msg, disk_index, files, appended,
                   rewritten>>
    /\ UNCHANGED dvars
    /\ UNCHANGED rvars
    /\ UNCHANGED ovars

\* fs::File::create(&archive_fn) fails: panic!("Unable to open archive dump file")
W_CreateFail ==
    /\ wpc = "create"
    /\ Panics
    /\ UNCHANGED <<w_seen, index_bw, w_msg, disk_index, files, appended,
                   rewritten>>
    /\ UNCHANGED dvars
    /\ UNCHANGED rvars
    /\ UNCHANGED ovars

\* to_writer returns Err: expect("Error writing archive summary!")
W_SerializeFail ==
    /\ wpc = "serialize"
    /\ Panics
    /\ UNCHANGED <<w_seen, index_bw, w_msg, disk_index, files, appended,
                   rewritten>>
    /\ UNCHANGED dvars
    /\ UNCHANGED rvars
    /\ UNCHANGED ovars

\* to_writer returns Ok with the tail of the data still in the XzEncoder and
\* the BufWriter; it is written when they are dropped, and Drop discards the
\* error of that write (XzEncoder: let _ = self.try_finish(); BufWriter:
\* let _r = self.flush_buf()).  The file stays short and the thread goes on.
W_SerializeDropFail ==
    /\ wpc = "serialize"
    /\ storage_error' = TRUE
    /\ wpc' = "index_writeln"
    /\ UNCHANGED <<w_seen, index_bw, w_msg, disk_index, files, appended,
                   rewritten, inbox>>
    /\ UNCHANGED dvars
    /\ UNCHANGED rvars
    /\ UNCHANGED ovars

\* index_bw.flush() fails: expect("Unable to write to index!").  While the
\* thread unwinds index_bw is dropped and BufWriter::drop tries the flush
\* once more; that attempt may succeed or fail.
W_FlushFail ==
    /\ wpc \in {"rewrite_flush", "index_flush"}
    /\ Panics
    /\ \E retried \in BOOLEAN :
          /\ disk_index' = IF retried THEN disk_index \o index_bw ELSE disk_index
          /\ appended' = IF retried /\ wpc = "index_flush"
                         THEN appended \cup Range(index_bw) ELSE appended
          /\ index_bw' = IF retried THEN <<>> ELSE index_bw
    /\ UNCHANGED <<w_seen, w_msg, files, rewritten>>
    /\ UNCHANGED dvars
    /\ UNCHANGED rvars
    /\ UNCHANGED ovars

Writer ==
    \/ W_Start \/ W_Truncate \/ W_Rewrite \/ W_RewriteFlush \/ W_Recv
    \/ W_RecvClosed \/ W_Create \/ W_Serialize \/ W_IndexWriteln \/ W_IndexFlush

StorageFailure ==
    \/ W_OpenIndexFail \/ W_CreateFail \/ W_SerializeFail \/ W_SerializeDropFail
    \/ W_FlushFail

\* ================================================== the process as a whole
ProcessAlive == dpc \notin {"start", "exited", "killed"}

\* the process is killed (operator interrupt, crash): both threads stop where
\* they are and what was only buffered is lost
Kill ==
    /\ ProcessAlive
    /\ dpc' = "killed"
    /\ wpc' = IF wpc = "unborn" THEN "unborn" ELSE "killed"
    /\ index_bw' = <<>>
    /\ inbox' = <<>>
    /\ UNCHANGED <<seen, warc_urls, cur, main_result, exit_code, sender_alive,
                   handed, accepted>>
    /\ UNCHANGED hvars
    /\ UNCHANGED <<w_seen, w_msg, disk_index, files, appended, rewritten,
                   storage_error>>
    /\ UNCHANGED rvars
    /\ UNCHANGED ovars

\* cc-get is started again over the same manifest and the same forms.d/
Restart ==
    /\ dpc \in {"exited", "killed"}
    /\ run < MaxRuns
    /\ run' = run + 1
    /\ index_at_start' = disk_index
    /\ prev_partial' = partial
    /\ dpc' = "start"
    /\ seen' = {}
    /\ warc_urls' = <<>>
    /\ cur' = NoMsg
    /\ main_result' = "none"
    /\ exit_code' = -1
    /\ inbox' = <<>>
    /\ sender_alive' = FALSE
    /\ wpc' = "unborn"
    /\ w_seen' = <<>>
    /\ index_bw' = <<>>
    /\ w_msg' = NoMsg
    /\ handed' = <<>>
    /\ accepted' = {}
    /\ appended' = {}
    /\ rewritten' = FALSE
    /\ storage_error' = FALSE
    /\ fetch_err' = "none"
    /\ UNCHANGED <<manifest, disk_index, files, fully, partial>>
    /\ UNCHANGED ovars

Next == Driver \/ Writer \/ StorageFailure \/ Kill \/ Restart

Spec == Init /\ [][Next]_vars

\* one run of cc-get that is not killed, with both threads scheduled fairly
LiveNext == Driver \/ Writer \/ StorageFailure

LiveSpec == Init /\ [][LiveNext]_vars /\ WF_vars(Driver) /\ WF_vars(Writer)

\* one run over a manifest that is longer than the channel, without failures
QueueInit ==
    /\ manifest = LongManifest
    /\ disk_index = <<>>
    /\ files = <<>>
    /\ run = 1
    /\ index_at_start = <<>>
    /\ fully = {}
    /\ partial = {}
    /\ prev_partial = {}
    /\ ProcessStart
    /\ ClientStart
    /\ budget = 0
    /\ since_req = NotFollowed
    /\ AnalysisStart

QueueNext ==
    \/ D_LoadSeen \/ D_GetWarcs \/ D_NewWriter \/ D_TakeNext \/ D_LoopEnd
    \/ D_ProcessOk \/ D_Write \/ D_Drop \/ D_Join
    \/ Writer

QueueSpec == QueueInit /\ [][QueueNext]_vars

\* ============================================================ Client::get
MaxServerErrors == 32  \* 5xx responses the origin gives to one call of get
LiveServerErrors == 3  \* the same, in the runs checked for termination
MaxCalls == 2          \* calls of get by one thread

\* status codes the origin answers with
Statuses == {200, 204, 404, 503}

\* StatusCode::is_success, StatusCode::is_server_error
is_success(st) == 200 <= st /\ st <= 299
is_server_error(st) == 500 <= st /\ st <= 599

Min(a, b) == IF a <= b THEN a ELSE b

\* an age beyond MAX_WAIT compares like MAX_WAIT + 1 with every wait_time
AgeCap == MAX_WAIT + 1

\* the variables a step of get leaves alone unless it names them
UnchangedClient(changed) ==
    /\ "wait_time" \in changed \/ UNCHANGED wait_time
    /\ "last_req_age" \in changed \/ UNCHANGED last_req_age
    /\ "seen_last_req_age" \in changed \/ UNCHANGED seen_last_req_age
    /\ "s_passed" \in changed \/ UNCHANGED s_passed
    /\ "seen_wait_time" \in changed \/ UNCHANGED seen_wait_time
    /\ "resp" \in changed \/ UNCHANGED resp
    /\ "ret" \in changed \/ UNCHANGED ret
    /\ "calls" \in changed \/ UNCHANGED calls
    /\ "consec" \in changed \/ UNCHANGED consec
    /\ "streak" \in changed \/ UNCHANGED streak
    /\ "since_req" \in changed \/ UNCHANGED since_req
    /\ UNCHANGED budget
    /\ UNCHANGED pvars
    /\ UNCHANGED avars

\* a second passes: Instant::now() moves on
Tick ==
    /\ last_req_age' = Min(last_req_age + 1, AgeCap)
    /\ seen_last_req_age' =
          [t \in Threads |->
              IF cpc[t] \in {"now", "compare", "cas"}
              THEN Min(seen_last_req_age[t] + 1, AgeCap)
              ELSE seen_last_req_age[t]]
    /\ since_req' = IF since_req >= 0 THEN Min(since_req + 1, AgeCap)
                     ELSE since_req
    /\ UNCHANGED cpc
    /\ UnchangedClient({"last_req_age", "seen_last_req_age", "since_req"})

\* a thread calls get: loop { self.wait_for_our_turn(); ...
G_Call(t) ==
    /\ cpc[t] \in {"idle", "returned"}
    /\ calls[t] < MaxCalls
    /\ calls' = [calls EXCEPT ![t] = @ + 1]
    /\ ret' = [ret EXCEPT ![t] = -1]
    /\ consec' = [consec EXCEPT ![t] = 0]
    /\ cpc' = [cpc EXCEPT ![t] = "turn"]
    /\ UnchangedClient({"calls", "ret", "consec"})

\* wait_for_our_turn: if self.wait_time.load() == 0 { return; }
T_CheckZero(t) ==
    /\ cpc[t] = "turn"
    /\ cpc' = [cpc EXCEPT ![t] = IF wait_time = 0 THEN "send" ELSE "load"]
    /\ UnchangedClient({})

\* let seen_last_req = self.last_req.load()
T_Load(t) ==
    /\ cpc[t] = "load"
    /\ seen_last_req_age' = [seen_last_req_age EXCEPT ![t] = last_req_age]
    /\ cpc' = [cpc EXCEPT ![t] = "now"]
    /\ UnchangedClient({"seen_last_req_age"})

\* let s_passed = (Instant::now() - offset_to_last_req).as_secs()
T_Now(t) ==
    /\ cpc[t] = "now"
    /\ s_passed' = [s_passed EXCEPT ![t] = seen_last_req_age[t]]
    /\ cpc' = [cpc EXCEPT ![t] = "compare"]
    /\ UnchangedClient({"s_passed"})

\* if s_passed > self.wait_time.load() { compare_exchange_weak; break } else
\* go round the loop
T_Compare(t) ==
    /\ cpc[t] = "compare"
    /\ cpc' = [cpc EXCEPT ![t] = IF s_passed[t] > wait_time THEN "cas" ELSE "load"]
    /\ s_passed' = [s_passed EXCEPT ![t] = 0]
    /\ seen_last_req_age' =
          [seen_last_req_age EXCEPT
              ![t] = IF s_passed[t] > wait_time THEN @ ELSE 0]
    /\ UnchangedClient({"s_passed", "seen_last_req_age"})

\* self.last_req.compare_exchange_weak(seen_last_req, now) succeeds: last_req
\* is the current second.  (Two ages that have both reached AgeCap count as
\* the same value.)
T_CasOk(t) ==
    /\ cpc[t] = "cas"
    /\ last_req_age = seen_last_req_age[t]
    /\ last_req_age' = 0
    /\ seen_last_req_age' = [seen_last_req_age EXCEPT ![t] = 0]
    /\ cpc' = [cpc EXCEPT ![t] = "send"]
    /\ UnchangedClient({"last_req_age", "seen_last_req_age"})

\* compare_exchange_weak fails, because last_req changed or spuriously; the
\* result is ignored (let _ = ...) and the loop is left all the same
T_CasFail(t) ==
    /\ cpc[t] = "cas"
    /\ seen_last_req_age' = [seen_last_req_age EXCEPT ![t] = 0]
    /\ cpc' = [cpc EXCEPT ![t] = "send"]
    /\ UnchangedClient({"seen_last_req_age"})

\* self.inner.get(..).send()? : the origin answers with a status; it answers
\* 5xx to one call at most budget times
G_Send(t) ==
    /\ cpc[t] = "send"
    /\ \E st \in Statuses :
          /\ is_server_error(st) => consec[t] < budget
          /\ resp' = [resp EXCEPT ![t] = st]
    /\ since_req' = IF since_req = NotFollowed THEN NotFollowed ELSE 0
    /\ cpc' = [cpc EXCEPT ![t] = "status"]
    /\ UnchangedClient({"resp", "since_req"})

\* send()? fails in the transport: get returns Err
G_SendErr(t) ==
    /\ cpc[t] = "send"
    /\ ret' = [ret EXCEPT ![t] = 0]
    /\ streak' = -1
    /\ since_req' = IF since_req = NotFollowed THEN NotFollowed ELSE 0
    /\ cpc' = [cpc EXCEPT ![t] = "returned"]
    /\ UnchangedClient({"ret", "streak", "since_req"})

\* the success branch without the store to wait_time
G_Success_no_store(t) ==
    /\ cpc[t] = "status"
    /\ is_success(resp[t])
    /\ streak' = 0
    /\ ret' = [ret EXCEPT ![t] = resp[t]]
    /\ resp' = [resp EXCEPT ![t] = -1]
    /\ cpc' = [cpc EXCEPT ![t] = "returned"]
    /\ UnchangedClient({"streak", "ret", "resp"})

\* if r.status().is_success() { self.wait_time.store(INITIAL_WAIT); break Ok(r) }
G_Success(t) ==
    /\ cpc[t] = "status"
    /\ is_success(resp[t])
    /\ wait_time' = INITIAL_WAIT
    /\ streak' = 0
    /\ ret' = [ret EXCEPT ![t] = resp[t]]
    /\ resp' = [resp EXCEPT ![t] = -1]
    /\ cpc' = [cpc EXCEPT ![t] = "returned"]
    /\ UnchangedClient({"wait_time", "streak", "ret", "resp"})

\* the server-error branch handing the response to the caller, no retry
G_ServerError_returns(t) ==
    /\ cpc[t] = "status"
    /\ is_server_error(resp[t])
    /\ consec' = [consec EXCEPT ![t] = @ + 1]
    /\ ret' = [ret EXCEPT ![t] = resp[t]]
    /\ resp' = [resp EXCEPT ![t] = -1]
    /\ streak' = -1
    /\ cpc' = [cpc EXCEPT ![t] = "returned"]
    /\ UnchangedClient({"resp", "consec", "streak", "ret"})

\* if r.status().is_server_error() { let seen_wait_time = self.wait_time.load();
\* if seen_wait_time < MAX_WAIT { compare_exchange } } and round the loop
G_ServerError(t) ==
    /\ cpc[t] = "status"
    /\ is_server_error(resp[t])
    /\ resp' = [resp EXCEPT ![t] = -1]
    /\ consec' = [consec EXCEPT ![t] = @ + 1]
    /\ IF wait_time < MAX_WAIT
       THEN /\ seen_wait_time' = [seen_wait_time EXCEPT ![t] = wait_time]
            /\ cpc' = [cpc EXCEPT ![t] = "bump"]
            /\ UNCHANGED streak
       ELSE /\ UNCHANGED seen_wait_time
            /\ cpc' = [cpc EXCEPT ![t] = "turn"]
            /\ streak' = IF streak >= 0 THEN streak + 1 ELSE streak
    /\ UnchangedClient({"resp", "consec", "seen_wait_time", "streak"})

\* the increment as a fetch_add, whatever wait_time has become meanwhile
G_Bump_fetch_add(t) ==
    /\ cpc[t] = "bump"
    /\ wait_time' = wait_time + 1
    /\ seen_wait_time' = [seen_wait_time EXCEPT ![t] = 0]
    /\ streak' = IF streak >= 0 THEN streak + 1 ELSE streak
    /\ cpc' = [cpc EXCEPT ![t] = "turn"]
    /\ UnchangedClient({"wait_time", "seen_wait_time", "streak"})

\* self.wait_time.compare_exchange(seen_wait_time, seen_wait_time + 1)
G_Bump(t) ==
    /\ cpc[t] = "bump"
    /\ wait_time' = IF wait_time = seen_wait_time[t]
                    THEN seen_wait_time[t] + 1 ELSE wait_time
    /\ seen_wait_time' = [seen_wait_time EXCEPT ![t] = 0]
    /\ streak' = IF streak >= 0 THEN streak + 1 ELSE streak
    /\ cpc' = [cpc EXCEPT ![t] = "turn"]
    /\ UnchangedClient({"wait_time", "seen_wait_time", "streak"})

\* the last branch sending the request again instead of returning
G_Other_retries(t) ==
    /\ cpc[t] = "status"
    /\ ~is_success(resp[t])
    /\ ~is_server_error(resp[t])
    /\ resp' = [resp EXCEPT ![t] = -1]
    /\ streak' = -1
    /\ cpc' = [cpc EXCEPT ![t] = "turn"]
    /\ UnchangedClient({"resp", "streak"})

\* neither success nor server error: else { break Ok(r) }
G_Other(t) ==
    /\ cpc[t] = "status"
    /\ ~is_success(resp[t])
    /\ ~is_server_error(resp[t])
    /\ ret' = [ret EXCEPT ![t] = resp[t]]
    /\ resp' = [resp EXCEPT ![t] = -1]
    /\ streak' = -1
    /\ cpc' = [cpc EXCEPT ![t] = "returned"]
    /\ UnchangedClient({"ret", "resp", "streak"})

wait_for_our_turn(t) ==
    \/ T_CheckZero(t) \/ T_Load(t) \/ T_Now(t) \/ T_Compare(t)
    \/ T_CasOk(t) \/ T_CasFail(t)

get(t) ==
    \/ G_Call(t) \/ wait_for_our_turn(t) \/ G_Send(t) \/ G_SendErr(t)
    \/ G_Success(t) \/ G_ServerError(t) \/ G_Bump(t) \/ G_Other(t)

PipelineStart ==
    /\ manifest = <<>>
    /\ disk_index = <<>>
    /\ files = <<>>
    /\ run = 1
    /\ index_at_start = <<>>
    /\ fully = {}
    /\ partial = {}
    /\ prev_partial = {}
    /\ ProcessStart

\* one thread calls get on a new Client
GetInit ==
    /\ PipelineStart
    /\ ClientStart
    /\ budget = MaxServerErrors
    /\ since_req = NotFollowed
    /\ AnalysisStart

GetNext == Tick \/ get("t1")

GetSpec == GetInit /\ [][GetNext]_vars

\* the same with an origin that answers 5xx a few times, time passing and the
\* thread scheduled fairly
GetLiveInit ==
    /\ PipelineStart
    /\ ClientStart
    /\ budget \in 0..LiveServerErrors
    /\ since_req = NotFollowed
    /\ AnalysisStart

GetLiveSpec ==
    GetLiveInit /\ [][GetNext]_vars /\ WF_vars(Tick) /\ WF_vars(get("t1"))

\* one thread calls get against an origin that answers 5xx up to three times
\* before another status; the seconds between requests are followed
RetryServerErrors == 3

RetryInit ==
    /\ PipelineStart
    /\ ClientStart
    /\ budget = RetryServerErrors
    /\ since_req = NoRequest
    /\ AnalysisStart

RetrySpec == RetryInit /\ [][GetNext]_vars

\* two threads call get on clones of one Client; the seconds are followed
\* until last_req is ConcMaxAge old
ConcServerErrors == 1
ConcMaxAge == 2

ConcTick == last_req_age < ConcMaxAge /\ Tick

ConcInit ==
    /\ PipelineStart
    /\ ClientStart
    /\ budget = ConcServerErrors
    /\ since_req = NoRequest
    /\ AnalysisStart

ConcNext == ConcTick \/ get("t1") \/ get("t2")

ConcSpec == ConcInit /\ [][ConcNext]_vars

\* two threads call get on clones of a Client whose earlier calls left the
\* wait CapHeadroom below MAX_WAIT and whose last request is long past
CapHeadroom == 1

CapInit ==
    /\ PipelineStart
    /\ wait_time = MAX_WAIT - CapHeadroom
    /\ last_req_age = AgeCap
    /\ cpc = [t \in Threads |-> "idle"]
    /\ seen_last_req_age = [t \in Threads |-> 0]
    /\ s_passed = [t \in Threads |-> 0]
    /\ seen_wait_time = [t \in Threads |-> 0]
    /\ resp = [t \in Threads |-> -1]
    /\ ret = [t \in Threads |-> -1]
    /\ calls = [t \in Threads |-> 0]
    /\ consec = [t \in Threads |-> 0]
    /\ streak = -1
    /\ budget = ConcServerErrors
    /\ since_req = NotFollowed
    /\ AnalysisStart

\* more than MAX_WAIT seconds pass at once
LongPause ==
    /\ last_req_age' = AgeCap
    /\ seen_last_req_age' =
          [t \in Threads |->
              IF cpc[t] \in {"now", "compare", "cas"}
              THEN AgeCap ELSE seen_last_req_age[t]]
    /\ since_req' = IF since_req >= 0 THEN AgeCap ELSE since_req
    /\ UNCHANGED cpc
    /\ UnchangedClient({"last_req_age", "seen_last_req_age", "since_req"})

CapNext == LongPause \/ get("t1") \/ get("t2")

CapSpec == CapInit /\ [][CapNext]_vars

\* ============================================================ process_warc
MaxForms == 2    \* <form> elements in the body of one record
MaxRecords == 2  \* records in one WARC
MaxZeros == 2    \* identity summaries reduce creates

\* the source text of a form element, tag by tag; the last one is what is left
\* of a form whose body was cut off in the archive
FormTexts ==
    { <<"<form>", "<input>", "</form>">>,
      <<"<form>", "<input pattern>", "</form>">>,
      <<"<form>", "<input pattern>">> }

Contains(text, tag) == \E i \in 1..Len(text) : text[i] = tag

PayloadTypes == {"absent", "text/html", "application/xhtml+xml", "image/png"}
TargetUris == {"absent", "u1", "u2"}

\* a WARC record: WARC-Type, WARC-Identified-Payload-Type, WARC-Target-URI
\* and the content, which decodes or not and holds forms in document order
RecordsOf(wtypes, bodies) ==
    [wtype : wtypes, ptype : PayloadTypes, uri : TargetUris,
     content : [decodable : BOOLEAN, forms : bodies]]

\* ArchiveSummary::default()
zero ==
    [nr_unknown_encoding |-> 0, nr_urls_without_patterns |-> 0,
     nr_forms_without_patterns |-> 0, urls_with_pattern_forms |-> <<>>]

\* merge with the second counter taken from self alone
merge_drops_counter(self, other) ==
    [nr_unknown_encoding |->
        self.nr_unknown_encoding + other.nr_unknown_encoding,
     nr_urls_without_patterns |-> self.nr_urls_without_patterns,
     nr_forms_without_patterns |->
        self.nr_forms_without_patterns + other.nr_forms_without_patterns,
     urls_with_pattern_forms |->
        self.urls_with_pattern_forms \o other.urls_with_pattern_forms]

\* ArchiveSummary::merge: summarised_forms.extend(other...), counters added
merge(self, other) ==
    [nr_unknown_encoding |->
        self.nr_unknown_encoding + other.nr_unknown_encoding,
     nr_urls_without_patterns |->
        self.nr_urls_without_patterns + other.nr_urls_without_patterns,
     nr_forms_without_patterns |->
        self.nr_forms_without_patterns + other.nr_forms_without_patterns,
     urls_with_pattern_forms |->
        self.urls_with_pattern_forms \o other.urls_with_pattern_forms]

\* the any(..) of extract_forms: some tag of the form is an input with a
\* pattern attribute
has_pattern_input(form) == Contains(form, "<input pattern>")

\* tag_text.contains("</form>")
has_closing_tag(tag_text) == Contains(tag_text, "</form>")

failed == [ok |-> FALSE, nr_forms |-> 0, with |-> <<>>]

\* the loop of extract_forms over the forms left, with nr_forms and
\* interesting_forms so far
RECURSIVE for_form_in(_, _, _)
for_form_in(forms, nr_forms, interesting_forms) ==
    IF forms = <<>>
    THEN [ok |-> TRUE, nr_forms |-> nr_forms, with |-> interesting_forms]
    ELSE LET form == Head(forms) IN
         IF has_pattern_input(form)
         THEN IF ~has_closing_tag(form)
              THEN failed
              ELSE for_form_in(Tail(forms), nr_forms + 1,
                               Append(interesting_forms, form))
         ELSE for_form_in(Tail(forms), nr_forms + 1, interesting_forms)

\* extract_forms: decode_body(content)? and the loop
extract_forms(content) ==
    IF ~content.decodable THEN failed
    ELSE for_form_in(content.forms, 0, <<>>)

is_html(content_type) ==
    content_type = "text/html" \/ content_type = "application/xhtml+xml"

\* the test for "no qualifying form" looking at nr_forms only
without_patterns_by_count(nr_forms, with) == nr_forms = 0

\* if nr_forms == 0 || with.is_empty()
without_patterns(nr_forms, with) == nr_forms = 0 \/ with = <<>>

\* from_record with the subtraction the wrong way round
from_record_swapped(record, trace) ==
    IF record.ptype = "absent" THEN <<>>
    ELSE IF ~is_html(record.ptype) THEN <<>>
    ELSE LET res == extract_forms(record.content) IN
         IF ~res.ok
         THEN IF trace /\ record.uri = "absent" THEN <<>>
              ELSE << [zero EXCEPT !.nr_unknown_encoding = 1] >>
         ELSE IF without_patterns(res.nr_forms, res.with)
         THEN << [zero EXCEPT !.nr_urls_without_patterns = 1] >>
         ELSE IF record.uri = "absent" THEN <<>>
         ELSE << [zero EXCEPT
                    !.nr_forms_without_patterns = Len(res.with) - res.nr_forms,
                    !.urls_with_pattern_forms =
                        << [url |-> record.uri, with_patterns |-> res.with] >>] >>

\* ArchiveSummary::from_record: the Option as a sequence of at most one
\* summary.  The ? on warc-target-uri in the arguments of trace! is evaluated
\* only when the log level lets trace! through.
from_record(record, trace) ==
    IF record.ptype = "absent" THEN <<>>
    ELSE IF ~is_html(record.ptype) THEN <<>>
    ELSE LET res == extract_forms(record.content) IN
         IF ~res.ok
         THEN IF trace /\ record.uri = "absent" THEN <<>>
              ELSE << [zero EXCEPT !.nr_unknown_encoding = 1] >>
         ELSE IF without_patterns(res.nr_forms, res.with)
         THEN << [zero EXCEPT !.nr_urls_without_patterns = 1] >>
         ELSE IF record.uri = "absent" THEN <<>>
         ELSE << [zero EXCEPT
                    !.nr_forms_without_patterns = res.nr_forms - Len(res.with),
                    !.urls_with_pattern_forms =
                        << [url |-> record.uri, with_patterns |-> res.with] >>] >>

\* a filter that lets records of every WARC-Type through
is_response_any(record) == TRUE

\* get_records: .filter(|r| r.header.get("WARC-Type") == Some("response"))
is_response(record) == record.wtype = "response"

One(a) == SetToBag({a})

\* a step of process_warc leaves the driver, the writer and the client alone
UnchangedByAnalysis == UNCHANGED <<pvars, cvars, input, trace_on>>

\* a worker takes the next record off the reader; a response record goes
\* through from_record and what it yields becomes a partial summary
A_Record ==
    /\ summary = <<>>
    /\ pos < Len(input)
    /\ pos' = pos + 1
    /\ LET record == input[pos + 1]
           inc == IF is_response(record)
                  THEN from_record(record, trace_on) ELSE <<>>
       IN /\ last_inc' = inc
          /\ partials' = IF inc = <<>> THEN partials
                         ELSE partials (+) One(inc[1])
    /\ UNCHANGED <<zeros, summary, lhs, rhs, merged>>
    /\ UnchangedByAnalysis

\* reduce calls its identity, ArchiveSummary::default
A_Identity ==
    /\ summary = <<>>
    /\ zeros < MaxZeros
    /\ zeros' = zeros + 1
    /\ partials' = partials (+) One(zero)
    /\ UNCHANGED <<pos, summary, last_inc, lhs, rhs, merged>>
    /\ UnchangedByAnalysis

\* a reduce step that keeps self and loses other
A_Merge_keeps_self ==
    /\ summary = <<>>
    /\ \E a \in BagToSet(partials) :
          \E b \in BagToSet(partials (-) One(a)) :
             /\ partials' = ((partials (-) One(a)) (-) One(b)) (+) One(a)
             /\ lhs' = <<a>>
             /\ rhs' = <<b>>
             /\ merged' = <<a>>
    /\ UNCHANGED <<pos, zeros, summary, last_inc>>
    /\ UnchangedByAnalysis

\* reduce combines two partial summaries: |a, b| a.merge(b)
A_Merge ==
    /\ summary = <<>>
    /\ \E a \in BagToSet(partials) :
          \E b \in BagToSet(partials (-) One(a)) :
             /\ partials' = ((partials (-) One(a)) (-) One(b))
                                (+) One(merge(a, b))
             /\ lhs' = <<a>>
             /\ rhs' = <<b>>
             /\ merged' = <<merge(a, b)>>
    /\ UNCHANGED <<pos, zeros, summary, last_inc>>
    /\ UnchangedByAnalysis

\* the reader is exhausted and the partials are combined: Ok(summary); with
\* no partial at all reduce returns the identity
A_Return ==
    /\ summary = <<>>
    /\ pos = Len(input)
    /\ BagCardinality(partials) <= 1
    /\ summary' = IF partials = EmptyBag THEN <<zero>>
                  ELSE <<CHOOSE a \in BagToSet(partials) : TRUE>>
    /\ UNCHANGED <<pos, partials, zeros, last_inc, lhs, rhs, merged>>
    /\ UnchangedByAnalysis

process_warc == A_Record \/ A_Identity \/ A_Merge \/ A_Return

\* from_record on one response record with any headers and any forms
AnalyseInit ==
    /\ PipelineStart
    /\ ClientStart
    /\ budget = 0
    /\ since_req = NotFollowed
    /\ input \in { <<r>> : r \in RecordsOf({"response"},
                                           SeqsUpTo(FormTexts, MaxForms)) }
    /\ trace_on \in BOOLEAN
    /\ pos = 0
    /\ partials = EmptyBag
    /\ zeros = 0
    /\ summary = <<>>
    /\ last_inc = <<>>
    /\ lhs = <<>>
    /\ rhs = <<>>
    /\ merged = <<>>

AnalyseSpec == AnalyseInit /\ [][process_warc]_vars

Rec(wtype, ptype, uri, decodable, forms) ==
    [wtype |-> wtype, ptype |-> ptype, uri |-> uri,
     content |-> [decodable |-> decodable, forms |-> forms]]

plain_form == <<"<form>", "<input>", "</form>">>
pattern_form == <<"<form>", "<input pattern>", "</form>">>
cut_form == <<"<form>", "<input pattern>">>

\* the records a WARC is made of here
WarcRecords ==
    { Rec("request", "text/html", "u1", TRUE, <<pattern_form>>),
      Rec("response", "image/png", "u1", TRUE, <<pattern_form>>),
      Rec("response", "absent", "u1", TRUE, <<pattern_form>>),
      Rec("response", "text/html", "u1", FALSE, <<>>),
      Rec("response", "text/html", "u1", TRUE, <<plain_form>>),
      Rec("response", "text/html", "u1", TRUE, <<pattern_form>>),
      Rec("response", "application/xhtml+xml", "u2", TRUE,
          <<plain_form, pattern_form>>),
      Rec("response", "text/html", "absent", TRUE, <<pattern_form>>),
      Rec("response", "text/html", "absent", TRUE, <<cut_form>>) }

\* process_warc on a WARC of up to MaxRecords records
ReduceInit ==
    /\ PipelineStart
    /\ ClientStart
    /\ budget = 0
    /\ since_req = NotFollowed
    /\ input \in SeqsUpTo(WarcRecords, MaxRecords)
    /\ trace_on \in BOOLEAN
    /\ pos = 0
    /\ partials = EmptyBag
    /\ zeros = 0
    /\ summary = <<>>
    /\ last_inc = <<>>
    /\ lhs = <<>>
    /\ rhs = <<>>
    /\ merged = <<>>

ReduceSpec == ReduceInit /\ [][process_warc]_vars

\* ================================================================== claims
Indexed == Range(disk_index)

\* C1: every WARC URL line appended to forms.d/index during this session has
\* its summary file to_storage_fn(url) completely written: no URL whose file
\* is missing or partial is listed, also after a kill at any point.
C1_IndexedFileComplete ==
    \A u \in appended : FileState(to_storage_fn(u)) = "complete"

\* the loop of main ended because the manifest iterator was exhausted
LoopExhausted ==
    /\ dpc \in {"drop", "join", "exited"}
    /\ main_result = "ok"
    /\ ~(cur.url # <<>> /\ cur.summary = "none")

\* C2: a WARC that was only partially processed never appears in
\* forms.d/index, and the next run over the same manifest hands it to
\* process_warc again.
C2_PartialNotIndexedAndRetried ==
    /\ \A u \in partial : u \notin Indexed
    /\ (run > 1 /\ LoopExhausted) =>
          \A u \in prev_partial \cap Range(manifest) : u \in Range(handed)

\* the manifest paths that were not in the index when the run started
Remaining ==
    SelectSeq(manifest, LAMBDA u : u \notin Range(index_at_start))

\* C3: no path that was a line of forms.d/index when cc-get started is handed
\* to process_warc or to writer.write in that run, and the other manifest
\* paths are taken in manifest order.
C3_IndexedPathsSkipped ==
    /\ \A u \in Range(handed) \cup accepted : u \notin Range(index_at_start)
    /\ \A i \in DOMAIN inbox : inbox[i].url \notin Range(index_at_start)
    /\ IsPrefix(handed, Remaining)
    /\ (LoopExhausted => handed = Remaining)

C3_Witness ==
    /\ Range(manifest) \cap Range(index_at_start) # {}
    /\ handed # <<>>
    /\ LoopExhausted

AllAcceptedStored ==
    \A u \in accepted :
        /\ u \in Indexed
        /\ FileState(to_storage_fn(u)) = "complete"

\* C4: once the AnalysisWriter is being dropped, the writer thread terminates,
\* and unless a storage operation failed every (warc_url, summary) that write
\* accepted has by then been written to its file and appended to the index;
\* drop returns only after the writer thread has terminated.
C4_DropDrainsAndJoins ==
    /\ [](dpc = "exited" /\ wpc # "unborn" => wpc \in {"done", "panicked"})
    /\ (dpc = "join") ~>
          (/\ wpc \in {"done", "panicked"}
           /\ dpc = "exited"
           /\ (storage_error \/ (wpc = "done" /\ AllAcceptedStored)))

C4_Witness ==
    /\ dpc = "join"
    /\ inbox # <<>>
    /\ wpc \in {"start", "recv"}
    /\ ~storage_error

\* C5: after the writer's initial rewrite of forms.d/index has completed, the
\* lines the index held before the writer started are a prefix of the index in
\* every later state of the session.
C5_PriorIndexIsPrefix ==
    rewritten => IsPrefix(index_at_start, disk_index)

C5_Witness ==
    /\ rewritten
    /\ index_at_start # <<>>
    /\ Len(disk_index) > Len(index_at_start)

\* C6: forms.d/index contains no WARC URL on more than one line.
C6_NoDuplicateLines ==
    \A i, j \in DOMAIN disk_index : i # j => disk_index[i] # disk_index[j]

WriterAlive == wpc \notin {"unborn", "done", "panicked", "killed"}

\* C7: never more than WRITE_BACKLOG summaries are sent and not yet received;
\* a write issued while WRITE_BACKLOG are pending stays blocked, and while the
\* writer is alive a write returns only by putting its summary into the
\* channel, without an error.
C7_BacklogBoundedWriteBlocks ==
    /\ [](Len(inbox) <= WRITE_BACKLOG)
    /\ [][(dpc = "write" /\ WriterAlive /\ Len(inbox) = WRITE_BACKLOG)
            => (dpc' = "write" /\ cur' = cur /\ main_result' = main_result)]_vars
    /\ [][(dpc = "write" /\ WriterAlive /\ dpc' # "write")
            => (/\ inbox' = Append(inbox, cur)
                /\ dpc' = "loop"
                /\ main_result' = main_result)]_vars

C7_Witness ==
    /\ dpc = "write"
    /\ WriterAlive
    /\ Len(inbox) = WRITE_BACKLOG

\* min(INITIAL_WAIT * 2^k, MAX_WAIT)
RECURSIVE Doubled(_)
Doubled(k) == IF k = 0 THEN INITIAL_WAIT ELSE Min(2 * Doubled(k - 1), MAX_WAIT)

\* C8: each 5xx response doubles the wait, from the initial value and never
\* beyond the cap: after k consecutive 5xx responses the wait is
\* min(initial * 2^k, cap).
C8_WaitDoubles ==
    /\ wait_time <= MAX_WAIT
    /\ streak >= 0 => wait_time = Doubled(streak)

\* C9: whenever get has returned a 2xx response, that call has set the shared
\* wait back to INITIAL_WAIT, whatever number of 5xx responses preceded it.
C9_SuccessResetsWait ==
    \A t \in Threads :
        (cpc[t] = "returned" /\ is_success(ret[t])) => wait_time = INITIAL_WAIT

C9_Witness ==
    /\ cpc["t1"] = "returned"
    /\ is_success(ret["t1"])
    /\ consec["t1"] > MAX_WAIT

\* C10: get never returns a 5xx response: it returns a 2xx response, a response
\* that is neither 2xx nor 5xx, or a transport error; and when the origin
\* answers 5xx finitely often every call returns, a 2xx answer being returned
\* as it is.
C10_ReturnsNo5xxAndTerminates ==
    /\ [](\A t \in Threads :
            cpc[t] = "returned" =>
               /\ ret[t] \in {0} \cup Statuses
               /\ ~is_server_error(ret[t]))
    /\ \A t \in Threads :
          (cpc[t] \notin {"idle", "returned"}) ~> (cpc[t] = "returned")
    /\ \A t \in Threads : \A st \in {x \in Statuses : is_success(x)} :
          (cpc[t] = "status" /\ resp[t] = st)
             ~> (cpc[t] = "returned" /\ ret[t] = st)

C10_Witness ==
    /\ cpc["t1"] = "returned"
    /\ is_success(ret["t1"])
    /\ consec["t1"] = LiveServerErrors
    /\ wait_time = INITIAL_WAIT

is_client_error(st) == 400 <= st /\ st <= 499

\* C11: when the origin answers a request of get with a 4xx status, get
\* returns that response without another request and leaves the shared wait
\* as it is.
C11_ClientErrorReturnedAtOnce ==
    [][\A t \in Threads :
          (cpc[t] = "status" /\ is_client_error(resp[t])) =>
             /\ wait_time' = wait_time
             /\ \/ (cpc'[t] = "status" /\ resp'[t] = resp[t])
                \/ (cpc'[t] = "returned" /\ ret'[t] = resp[t])]_vars

C11_Witness ==
    /\ cpc["t1"] = "returned"
    /\ is_client_error(ret["t1"])
    /\ consec["t1"] > 0
    /\ wait_time = consec["t1"]

\* thread t issues a request in this step
Issues(t) == cpc[t] = "send" /\ cpc'[t] # "send"

\* C12: with threads sharing one Client, consecutive requests are more than
\* the current wait apart: a request is issued only when more than wait_time
\* seconds have passed since the request before it, whichever thread sent it.
C12_RequestsSpacedAcrossThreads ==
    [][\A t \in Threads :
          (Issues(t) /\ since_req # NoRequest) => since_req > wait_time]_vars

\* C13: in a single-threaded call of get, each retry after a 5xx is issued
\* only when the wait in force has fully elapsed since the preceding request.
C13_RetryAfterWaitElapsed ==
    [][(Issues("t1") /\ consec["t1"] > 0) => since_req >= wait_time]_vars

\* from_record was applied to the record taken last
Analysed == pos > 0 /\ is_response(input[pos])

unknown_encoding == [zero EXCEPT !.nr_unknown_encoding = 1]
url_without_patterns == [zero EXCEPT !.nr_urls_without_patterns = 1]

\* C14: from_record agrees with the analyzer table: a record without payload
\* type or with a type other than text/html and application/xhtml+xml yields
\* no increment; otherwise nr_unknown_encoding = 1 when the extractor fails,
\* nr_urls_without_patterns = 1 when it returns no qualifying form, or one U
\* {url, forms} with nr_forms_without_patterns = n - |forms|, and no
\* increment when that U needs a WARC-Target-URI the record does not have.
C14_FromRecordFollowsTable ==
    Analysed =>
        LET record == input[pos]
            res == extract_forms(record.content)
        IN IF ~is_html(record.ptype) THEN last_inc = <<>>
           ELSE IF ~res.ok THEN last_inc = <<unknown_encoding>>
           ELSE IF res.with = <<>> THEN last_inc = <<url_without_patterns>>
           ELSE IF record.uri = "absent" THEN last_inc = <<>>
           ELSE last_inc =
                  << [nr_unknown_encoding |-> 0,
                      nr_urls_without_patterns |-> 0,
                      nr_forms_without_patterns |->
                          res.nr_forms - Len(res.with),
                      urls_with_pattern_forms |->
                          << [url |-> record.uri,
                              with_patterns |-> res.with] >>] >>

\* some qualifying form of the record has a source slice without </form>
HasCutForm(record) ==
    \E i \in 1..Len(record.content.forms) :
       /\ has_pattern_input(record.content.forms[i])
       /\ ~Contains(record.content.forms[i], "</form>")

\* C15: an html record with a qualifying form whose source slice lacks
\* </form> contributes nr_unknown_encoding = 1 and no U, whatever its other
\* forms are, and every form text stored in a U contains </form>.
C15_CutFormFailsRecord ==
    Analysed =>
        /\ (is_html(input[pos].ptype) /\ input[pos].content.decodable
               /\ HasCutForm(input[pos])) => last_inc = <<unknown_encoding>>
        /\ \A k \in 1..Len(last_inc) :
              \A i \in 1..Len(last_inc[k].urls_with_pattern_forms) :
                 \A j \in 1..Len(last_inc[k].urls_with_pattern_forms[i].with_patterns) :
                    Contains(last_inc[k].urls_with_pattern_forms[i].with_patterns[j],
                             "</form>")

\* C16 as stated: merge(A1, A2) = merge(A2, A1) and merge(A, zero) = A, with
\* equality on all four fields including urls_with_pattern_forms.
C16_MergeCommutative ==
    merged # <<>> =>
        /\ merged[1] = merge(rhs[1], lhs[1])
        /\ rhs[1] = zero => merged[1] = lhs[1]

Counters(A) ==
    <<A.nr_unknown_encoding, A.nr_urls_without_patterns,
      A.nr_forms_without_patterns>>

SeqToBag(s) ==
    [x \in Range(s) |-> Cardinality({i \in 1..Len(s) : s[i] = x})]

\* C16: merge(A1, A2) and merge(A2, A1) have the same three counters and the
\* same URLSummary entries with the same multiplicities, merge(A1, A2) listing
\* those of A1 before those of A2; merge(A, zero) = A and merge(zero, A) = A
\* on all four fields.
C16_MergeCommutativeUpToOrder ==
    merged # <<>> =>
        LET A1 == lhs[1]
            A2 == rhs[1]
        IN /\ Counters(merged[1]) = Counters(merge(A2, A1))
           /\ merged[1].urls_with_pattern_forms =
                 A1.urls_with_pattern_forms \o A2.urls_with_pattern_forms
           /\ SeqToBag(merged[1].urls_with_pattern_forms) =
                 SeqToBag(merge(A2, A1).urls_with_pattern_forms)
           /\ A2 = zero => merged[1] = A1
           /\ A1 = zero => merged[1] = A2

C16_Witness ==
    /\ merged # <<>>
    /\ lhs[1].urls_with_pattern_forms # <<>>
    /\ rhs[1].urls_with_pattern_forms # <<>>
    /\ lhs[1].urls_with_pattern_forms # rhs[1].urls_with_pattern_forms
    /\ merged[1] # merge(rhs[1], lhs[1])

HtmlResponses(S) ==
    {i \in 1..Len(S) : S[i].wtype = "response" /\ is_html(S[i].ptype)}

HtmlResponsesWithUri(S) == {i \in HtmlResponses(S) : S[i].uri # "absent"}

Counted(A) ==
    A.nr_unknown_encoding + A.nr_urls_without_patterns
        + Len(A.urls_with_pattern_forms)

\* C17 as stated: the counters of the summary of a record stream S sum to the
\* number of response records of S of type text/html or application/xhtml+xml.
C17_CountsEveryHtmlRecord ==
    summary # <<>> => Counted(summary[1]) = Cardinality(HtmlResponses(input))

\* C17: every response record of html type that has a WARC-Target-URI is
\* counted exactly once, one without WARC-Target-URI at most once, and no
\* other record is counted: the sum of the counters lies between the number
\* of html response records with a WARC-Target-URI and the number of all html
\* response records.
C17_CountsHtmlRecordsWithUri ==
    /\ pos > 0 =>
          /\ Len(last_inc) <= 1
          /\ \A k \in 1..Len(last_inc) : Counted(last_inc[k]) = 1
          /\ pos \in HtmlResponsesWithUri(input) => Len(last_inc) = 1
          /\ pos \notin HtmlResponses(input) => last_inc = <<>>
    /\ summary # <<>> =>
          /\ Counted(summary[1]) >= Cardinality(HtmlResponsesWithUri(input))
          /\ Counted(summary[1]) <= Cardinality(HtmlResponses(input))

C17_Witness ==
    /\ summary # <<>>
    /\ Cardinality(HtmlResponsesWithUri(input)) = 1
    /\ Cardinality(HtmlResponses(input)) = 2
    /\ Counted(summary[1]) = 1

NonEmptyPatterns(A) ==
    \A i \in 1..Len(A.urls_with_pattern_forms) :
       A.urls_with_pattern_forms[i].with_patterns # <<>>

\* C18: every URLSummary in urls_with_pattern_forms of a summary that
\* from_record or any sequence of merge calls produced has a non-empty
\* with_patterns list.
C18_UrlSummariesHaveForms ==
    /\ \A k \in 1..Len(last_inc) : NonEmptyPatterns(last_inc[k])
    /\ \A A \in BagToSet(partials) : NonEmptyPatterns(A)
    /\ \A k \in 1..Len(merged) : NonEmptyPatterns(merged[k])
    /\ \A k \in 1..Len(summary) : NonEmptyPatterns(summary[k])

C18_Witness ==
    /\ merged # <<>>
    /\ summary # <<>>
    /\ Len(summary[1].urls_with_pattern_forms) = 2
    /\ summary[1].nr_forms_without_patterns = 1

\* C19: when the fetch of a WARC path ends with a 4xx status, the driver
\* skips that WARC, which is neither written nor indexed, and continues with
\* the next manifest path.
C19_ClientErrorSkipsWarc ==
    [][(dpc = "process" /\ fetch_err' = "status") =>
          /\ dpc' = "loop"
          /\ accepted' = accepted
          /\ disk_index' = disk_index]_vars

\* process_warc failed for the path in cur and main has returned
FetchFailedAndExited ==
    /\ dpc = "exited"
    /\ fetch_err # "none"

Front(s) == SubSeq(s, 1, Len(s) - 1)

RunCompleted ==
    /\ LoopExhausted
    /\ handed = Remaining
    /\ accepted = Range(Remaining)

\* C21: cc-get exits with status 0 exactly when every remaining manifest path
\* was processed and handed to the writer (a failed storage operation aside),
\* and with a non-zero status when the run was aborted by a failed WARC fetch.
C21_ExitStatusTellsCompletion ==
    dpc = "exited" =>
        /\ exit_code = 0 => RunCompleted
        /\ (RunCompleted /\ ~storage_error) => exit_code = 0
        /\ fetch_err # "none" => exit_code # 0

\* C22: once a filesystem or serialization operation of the writer thread
\* has failed for a message, no index line is appended any more in that run,
\* write accepts no further message, and the process does not exit with a
\* success status.
C22_WriterFailureStopsRun ==
    [][(storage_error /\ run' = run) =>
          /\ disk_index' = disk_index
          /\ accepted' = accepted
          /\ dpc' = "exited" => exit_code' # 0]_vars

\* C23: the storage filename has no '/' after the forms.d/ prefix, and two
\* distinct WARC URLs have distinct storage filenames, so no two indexed
\* WARCs share one summary file.
C23_StorageNamesDistinct ==
    \A u \in Indexed :
       /\ ~Contains(Replace(u), "/")
       /\ \A v \in Indexed : u # v => to_storage_fn(u) # to_storage_fn(v)

\* the records of S taken one after the other by a single worker, each
\* increment merged onto the summary so far
RECURSIVE InOrder(_, _, _)
InOrder(S, trace, A) ==
    IF S = <<>> THEN A
    ELSE LET inc == IF Head(S).wtype = "response"
                    THEN from_record(Head(S), trace) ELSE <<>>
         IN InOrder(Tail(S), trace, IF inc = <<>> THEN A ELSE merge(A, inc[1]))

\* C24: for a fixed record stream the summary process_warc returns does not
\* depend on the scheduling of records onto workers nor on the order of the
\* merges: the three counters and the multiset of URLSummary entries, each
\* with its with_patterns list as from_record built it, are those of taking
\* the records in stream order.
C24_SummaryIndependentOfSchedule ==
    summary # <<>> =>
        LET A == InOrder(input, trace_on, zero)
        IN /\ Counters(summary[1]) = Counters(A)
           /\ SeqToBag(summary[1].urls_with_pattern_forms) =
                 SeqToBag(A.urls_with_pattern_forms)

C24_Witness ==
    /\ summary # <<>>
    /\ Len(input) = 2
    /\ input[1].uri = "u1"
    /\ Len(summary[1].urls_with_pattern_forms) = 2
    /\ summary[1].urls_with_pattern_forms[1].url = "u2"
    /\ Len(summary[1].urls_with_pattern_forms[1].with_patterns) = 1
    /\ summary[1].nr_forms_without_patterns = 1

NonNegative(A) ==
    /\ A.nr_unknown_encoding >= 0
    /\ A.nr_urls_without_patterns >= 0
    /\ A.nr_forms_without_patterns >= 0

\* C25: the three counters of every summary that from_record or any sequence
\* of merge calls produced are >= 0; nr_forms_without_patterns, the forms
\* seen minus the qualifying ones, is never negative.
C25_CountersNonNegative ==
    /\ \A k \in 1..Len(last_inc) : NonNegative(last_inc[k])
    /\ \A A \in BagToSet(partials) : NonNegative(A)
    /\ \A k \in 1..Len(merged) : NonNegative(merged[k])
    /\ \A k \in 1..Len(summary) : NonNegative(summary[k])

C25_Witness ==
    /\ summary # <<>>
    /\ merged # <<>>
    /\ summary[1].nr_forms_without_patterns = 1
    /\ summary[1].nr_unknown_encoding = 1

\* C26: under any interleaving of get calls on clones of one Client the
\* shared wait_time stays within INITIAL_WAIT..MAX_WAIT; a step raises it by
\* at most one and only while it is below MAX_WAIT, and otherwise leaves it
\* or resets it to INITIAL_WAIT.
C26_WaitTimeWithinBounds ==
    /\ [](INITIAL_WAIT <= wait_time /\ wait_time <= MAX_WAIT)
    /\ [][\/ wait_time' = wait_time
          \/ wait_time' = INITIAL_WAIT
          \/ (wait_time' = wait_time + 1 /\ wait_time < MAX_WAIT)]_vars

\* both threads saw a 5xx while the wait was one below MAX_WAIT, one of them
\* has raised it to MAX_WAIT and the other is about to exchange
C26_Witness ==
    /\ wait_time = MAX_WAIT
    /\ \E t \in Threads :
          /\ cpc[t] = "bump"
          /\ seen_wait_time[t] = MAX_WAIT - 1

\* C27: the driver computes its 'already done' set from forms.d/index while
\* no writer thread exists yet, so the set is the index as it was when the
\* run started and never the index the writer has truncated and not yet
\* rewritten; and only steps of the writer thread change the index.
C27_SeenReadBeforeWriterStarts ==
    /\ [](dpc \notin {"start", "killed"} => seen = Range(index_at_start))
    /\ [][(dpc = "start" /\ dpc' = "get_warcs") => wpc = "unborn"]_vars
    /\ [][disk_index' # disk_index =>
             (dvars' = dvars /\ wpc \notin {"unborn", "done", "killed"})]_vars

\* the writer has truncated an index that had lines and not yet rewritten it
C27_Witness ==
    /\ wpc \in {"rewrite", "rewrite_flush"}
    /\ ~rewritten
    /\ index_at_start # <<>>
    /\ disk_index = <<>>
    /\ seen = Range(index_at_start)
    /\ warc_urls # <<>>

====
